---- MODULE Spec2Model ----
(***************************************************************************)
(* Batch job execution engine of skills/imagegen/scripts/image_gen.py:     *)
(* the asyncio tasks of _run_generate_batch, the semaphore that bounds the  *)
(* in-flight remote calls, the retry loop of _generate_one_with_retries,    *)
(* the write step of _decode_write_and_downscale and the exit status of     *)
(* _generate_batch.                                                         *)
(*                                                                          *)
(* One action is one step of one asyncio task: the code that runs between   *)
(* two suspension points (await of the semaphore, of the remote call, of    *)
(* the backoff sleep, of gather).                                           *)
(***************************************************************************)
EXTENDS Integers, Sequences, FiniteSets, TLC

\* ------------------------------------------------------------------------
\* Bounds of the model
\* ------------------------------------------------------------------------
\* jobs in a batch, slots, and --max-attempts in batch runs
MaxJobs == 3
MaxConcurrency == 2
MaxBatchAttempts == 2
\* --max-attempts in the runs of a single job
MaxAttemptsBound == 3
\* lines of the input files that are parsed
MaxLines == 3
MaxImages == 3
MaxPlans == 2

\* ------------------------------------------------------------------------
\* Program constants
\* ------------------------------------------------------------------------
DEFAULT_SIZE == <<"1024x1024">>
DEFAULT_QUALITY == <<"auto">>
DEFAULT_OUTPUT_FORMAT == "png"
ALLOWED_SIZES == {<<"1024x1024">>, <<"1536x1024">>, <<"1024x1536">>, <<"auto">>}
ALLOWED_QUALITIES == {<<"low">>, <<"medium">>, <<"high">>, <<"auto">>}
\* None is the empty option <<>>, a present value v is <<v>>
None == <<>>
ALLOWED_BACKGROUNDS == {<<"transparent">>, <<"opaque">>, <<"auto">>, None}

\* ------------------------------------------------------------------------
\* Text: a string is a sequence of one-character strings
\* ------------------------------------------------------------------------
UpperChars == <<"A","B","C","D","E","F","G","H","I","J","K","L","M",
                "N","O","P","Q","R","S","T","U","V","W","X","Y","Z">>
LowerChars == <<"a","b","c","d","e","f","g","h","i","j","k","l","m",
                "n","o","p","q","r","s","t","u","v","w","x","y","z">>

LowerChar(c) ==
    IF \E k \in 1..26 : UpperChars[k] = c
    THEN LowerChars[CHOOSE k \in 1..26 : UpperChars[k] = c]
    ELSE c

\* str.lower()
Lower(s) == [k \in 1..Len(s) |-> LowerChar(s[k])]

\* `sub in s`
Contains(sub, s) ==
    \E k \in 0..(Len(s) - Len(sub)) :
        \A j \in 1..Len(sub) : s[k + j] = sub[j]

\* ------------------------------------------------------------------------
\* Messages of _die (line 38): a message is the sequence of the parts of its
\* f-string, the words of a literal part or the value of a replacement field
\* ------------------------------------------------------------------------
Lit(words) == [lit |-> words]
Val(v) == [val |-> v]

\* ------------------------------------------------------------------------
\* Errors raised by the remote call: class name and message text
\* ------------------------------------------------------------------------
ErrRateLimit ==
    [cls |-> <<"R","a","t","e","L","i","m","i","t","E","r","r","o","r">>,
     msg |-> <<"E","r","r","o","r"," ","c","o","d","e",":"," ","4","2","9">>]
ErrTimeout ==
    [cls |-> <<"A","P","I","T","i","m","e","o","u","t","E","r","r","o","r">>,
     msg |-> <<"R","e","q","u","e","s","t"," ","f","a","i","l","e","d">>]
ErrConnReset ==
    [cls |-> <<"A","P","I","C","o","n","n","e","c","t","i","o","n","E","r","r","o","r">>,
     msg |-> <<"C","o","n","n","e","c","t","i","o","n"," ","r","e","s","e","t">>]
ErrBadRequest ==
    [cls |-> <<"B","a","d","R","e","q","u","e","s","t","E","r","r","o","r">>,
     msg |-> <<"I","n","v","a","l","i","d"," ","p","r","o","m","p","t">>]

\* rate-limit errors that say when to retry; numbers of seconds are counted in
\* tenths, so 7.0 s is 70
\* exc.retry_after = 7.0
ErrRetryAfterAttr ==
    [cls |-> <<"R","a","t","e","L","i","m","i","t","E","r","r","o","r">>,
     msg |-> <<"E","r","r","o","r"," ","c","o","d","e",":"," ","4","2","9">>,
     retry_after |-> <<70>>]
\* "429 Retry-After: 3"
ErrRetryAfterText ==
    [cls |-> <<"R","a","t","e","L","i","m","i","t","E","r","r","o","r">>,
     msg |-> <<"4","2","9"," ","R","e","t","r","y","-","A","f","t","e","r",":"," ","3">>]
\* "429 retry after 1.5"
ErrRetryAfterFraction ==
    [cls |-> <<"R","a","t","e","L","i","m","i","t","E","r","r","o","r">>,
     msg |-> <<"4","2","9"," ","r","e","t","r","y"," ","a","f","t","e","r"," ","1",".","5">>]

\* "429 retry-after: 3" with exc.retry_after = 2.0
ErrRetryAfterBoth ==
    [cls |-> <<"R","a","t","e","L","i","m","i","t","E","r","r","o","r">>,
     msg |-> <<"4","2","9"," ","r","e","t","r","y","-","a","f","t","e","r",":"," ","3">>,
     retry_after |-> <<20>>]
\* "429 retry-after: 3" with exc.retry_after = -1.0
ErrRetryAfterNegative ==
    [cls |-> <<"R","a","t","e","L","i","m","i","t","E","r","r","o","r">>,
     msg |-> <<"4","2","9"," ","r","e","t","r","y","-","a","f","t","e","r",":"," ","3">>,
     retry_after |-> <<-10>>]
\* "429 retry-after: 3" with exc.retry_after_seconds = 0.5
ErrRetryAfterSeconds ==
    [cls |-> <<"R","a","t","e","L","i","m","i","t","E","r","r","o","r">>,
     msg |-> <<"4","2","9"," ","r","e","t","r","y","-","a","f","t","e","r",":"," ","3">>,
     retry_after_seconds |-> <<5>>]

HintedErrors ==
    {ErrRetryAfterAttr, ErrRetryAfterText, ErrRetryAfterFraction,
     ErrRetryAfterBoth, ErrRetryAfterNegative, ErrRetryAfterSeconds}

RemoteErrors == {ErrRateLimit, ErrTimeout, ErrConnReset, ErrBadRequest} \cup HintedErrors
\* the errors raised in batch runs: one transient, one fatal
BatchErrors == {ErrRateLimit, ErrBadRequest}

\* last_exc is None before the first failure
NoExc == [cls |-> <<>>, msg |-> <<>>]

_is_rate_limit_error(exc) ==
    LET name == Lower(exc.cls)
        msg == Lower(exc.msg)
    IN  \/ Contains(<<"r","a","t","e","l","i","m","i","t">>, name)
        \/ Contains(<<"r","a","t","e","_","l","i","m","i","t">>, name)
        \/ Contains(<<"4","2","9">>, msg)
        \/ Contains(<<"r","a","t","e"," ","l","i","m","i","t">>, msg)
        \/ Contains(<<"t","o","o"," ","m","a","n","y"," ","r","e","q","u","e","s","t","s">>, msg)

\* variant: timeouts and connection resets are not recognised
OnlyRateLimitIsTransient(exc) == _is_rate_limit_error(exc)

\* variant: no error is recognised as fatal
EveryErrorIsTransient(exc) == TRUE

_is_transient_error(exc) ==
    LET name == Lower(exc.cls)
        msg == Lower(exc.msg)
    IN  \/ _is_rate_limit_error(exc)
        \/ Contains(<<"t","i","m","e","o","u","t">>, name)
        \/ Contains(<<"t","i","m","e","d","o","u","t">>, name)
        \/ Contains(<<"t","e","m","p","o","r">>, name)
        \/ Contains(<<"t","i","m","e","o","u","t">>, msg)
        \/ Contains(<<"t","i","m","e","d"," ","o","u","t">>, msg)
        \/ Contains(<<"c","o","n","n","e","c","t","i","o","n"," ","r","e","s","e","t">>, msg)

\* ------------------------------------------------------------------------
\* Backoff delay (lines 466-468)
\* ------------------------------------------------------------------------
Digits == <<"0","1","2","3","4","5","6","7","8","9">>
Digit(d) == Digits[d + 1]

\* getattr(exc, attr, None)
GetAttr(exc, attr) == IF attr \in DOMAIN exc THEN exc[attr] ELSE None

DigitChars == {"0","1","2","3","4","5","6","7","8","9"}

\* s[k:k+len(sub)] == sub
StartsWithAt(sub, s, k) ==
    /\ k + Len(sub) - 1 <= Len(s)
    /\ \A j \in 1..Len(sub) : s[k + j - 1] = sub[j]

\* position after the longest run of characters of chars that starts at k
RECURSIVE RunEnd(_, _, _)
RunEnd(s, k, chars) ==
    IF k <= Len(s) /\ s[k] \in chars THEN RunEnd(s, k + 1, chars) ELSE k

\* the pattern r"retry[- ]after[:= ]+([0-9]+(?:\\.[0-9]+)?)" matches at k,
\* ignoring case
RetryAfterMatchesAt(msg, k) ==
    LET low == Lower(msg)
        sep == RunEnd(msg, k + 11, {":", "=", " "})
    IN  /\ StartsWithAt(<<"r","e","t","r","y">>, low, k)
        /\ k + 5 <= Len(msg) /\ msg[k + 5] \in {"-", " "}
        /\ StartsWithAt(<<"a","f","t","e","r">>, low, k + 6)
        /\ sep > k + 11
        /\ RunEnd(msg, sep, DigitChars) > sep

\* m.group(1) of the leftmost match: the digits, and after them, when present,
\* a backslash, one more character and digits (the pattern is a raw string, so
\* its "\\." is a backslash followed by any character)
RetryAfterGroup(msg) ==
    LET k == CHOOSE k \in 1..Len(msg) :
                /\ RetryAfterMatchesAt(msg, k)
                /\ \A j \in 1..(k - 1) : ~RetryAfterMatchesAt(msg, j)
        from == RunEnd(msg, k + 11, {":", "=", " "})
        to == RunEnd(msg, from, DigitChars)
        more == RunEnd(msg, to + 2, DigitChars)
    IN  IF /\ to + 2 <= Len(msg) /\ msg[to] = "\\" /\ msg[to + 1] # "\n"
           /\ more > to + 2
        THEN SubSeq(msg, from, more - 1)
        ELSE SubSeq(msg, from, to - 1)

\* value of a string of digits
RECURSIVE DigitsValue(_)
DigitsValue(s) ==
    IF s = <<>> THEN 0
    ELSE 10 * DigitsValue(SubSeq(s, 1, Len(s) - 1))
         + (CHOOSE d \in 0..9 : Digits[d + 1] = s[Len(s)])

\* float(text) in tenths of a second, None when float raises ValueError
Float(text) ==
    IF \A k \in 1..Len(text) : text[k] \in DigitChars
    THEN <<10 * DigitsValue(text)>> ELSE None

\* variant: the text of the error is searched before its attributes
_extract_text_first(exc) ==
    LET val1 == GetAttr(exc, "retry_after")
        val2 == GetAttr(exc, "retry_after_seconds")
    IN  IF \E k \in 1..Len(exc.msg) : RetryAfterMatchesAt(exc.msg, k)
        THEN Float(RetryAfterGroup(exc.msg))
        ELSE IF val1 # None /\ val1[1] >= 0 THEN val1
        ELSE IF val2 # None /\ val2[1] >= 0 THEN val2
        ELSE None

\* the returned number of seconds in tenths, or None
_extract_retry_after_seconds(exc) ==
    LET val1 == GetAttr(exc, "retry_after")
        val2 == GetAttr(exc, "retry_after_seconds")
    IN  IF val1 # None /\ val1[1] >= 0 THEN val1
        ELSE IF val2 # None /\ val2[1] >= 0 THEN val2
        ELSE IF \E k \in 1..Len(exc.msg) : RetryAfterMatchesAt(exc.msg, k)
        THEN Float(RetryAfterGroup(exc.msg))
        ELSE None

Min(a, b) == IF a < b THEN a ELSE b

\* sleep_s of lines 466-468, in tenths of a second
BackoffDelay(exc, a) ==
    LET sleep_s == _extract_retry_after_seconds(exc)
    IN  IF sleep_s = None THEN Min(600, 10 * 2^a) ELSE sleep_s[1]

\* ------------------------------------------------------------------------
\* Request payloads: a dict is a function from its keys to options
\* ------------------------------------------------------------------------
PayloadKeys == {"n", "size", "quality", "background", "output_format", "output_compression"}

\* base_payload built from the command-line arguments (main has range-checked
\* args.n, args.size, args.quality, args.background, args.output_compression)
base_payload ==
    [n |-> <<1>>, size |-> DEFAULT_SIZE, quality |-> DEFAULT_QUALITY,
     background |-> None, output_format |-> None, output_compression |-> None]

_merge_non_null(dst, src) ==
    [k \in (DOMAIN dst) \cup {x \in DOMAIN src : src[x] # None} |->
        IF k \in DOMAIN src /\ src[k] # None THEN src[k] ELSE dst[k]]

\* {k: v for k, v in payload.items() if v is not None}
DropNone(p) == [k \in {x \in DOMAIN p : p[x] # None} |-> p[k]]

\* dict.get(k, default), on a dict without None values
Get(p, k, default) == IF k \in DOMAIN p THEN p[k] ELSE default

\* a number is <<v>>, or <<whole, tenths>> when it has a fraction; int()
\* keeps the whole part
ToInt(v) == v[1]

\* payload of run_job, lines 551-554, without its "prompt"
JobPayload(job) == DropNone(_merge_non_null(base_payload, job.over))

_validate_size(size) == size \in ALLOWED_SIZES
_validate_quality(quality) == quality \in ALLOWED_QUALITIES
_validate_background(background) == background \in ALLOWED_BACKGROUNDS

\* TRUE when _validate_generate_payload returns, FALSE when it calls _die
_validate_generate_payload(payload) ==
    LET n == ToInt(Get(payload, "n", <<1>>))
        oc == Get(payload, "output_compression", None)
    IN  /\ ~(n < 1 \/ n > 10)
        /\ _validate_size(Get(payload, "size", DEFAULT_SIZE))
        /\ _validate_quality(Get(payload, "quality", DEFAULT_QUALITY))
        /\ _validate_background(Get(payload, "background", None))
        /\ (oc # None => (0 <= ToInt(oc) /\ ToInt(oc) <= 100))

\* fmt.lower() on the format names of the model
LowerFormat(f) ==
    CASE f = "PNG" -> "png"
      [] f = "JPG" -> "jpg"
      [] OTHER -> f

\* TRUE when _normalize_output_format returns, FALSE when it calls _die
NormalizeOutputFormatOk(fmt) ==
    fmt = None \/ LowerFormat(fmt[1]) \in {"png", "jpeg", "jpg", "webp"}

_normalize_output_format(fmt) ==
    IF fmt = None THEN DEFAULT_OUTPUT_FORMAT
    ELSE IF LowerFormat(fmt[1]) = "jpg" THEN "jpeg" ELSE LowerFormat(fmt[1])

\* TRUE when _validate_transparency returns, FALSE when it calls _die
_validate_transparency(background, output_format) ==
    ~(background = <<"transparent">> /\ output_format \notin {"png", "webp"})

\* lines 556-561 of run_job: no _die on the way to _job_output_paths
PayloadValid(job) ==
    LET payload == JobPayload(job)
    IN  /\ _validate_generate_payload(payload)
        /\ NormalizeOutputFormatOk(Get(payload, "output_format", None))
        /\ _validate_transparency(Get(payload, "background", None),
               _normalize_output_format(Get(payload, "output_format", None)))

\* the message of the first _die of lines 557-559, None when they all return
ValidationError(job) ==
    LET payload == JobPayload(job)
        n == ToInt(Get(payload, "n", <<1>>))
        oc == Get(payload, "output_compression", None)
        fmt == Get(payload, "output_format", None)
        background == Get(payload, "background", None)
    IN  IF n < 1 \/ n > 10
        THEN << <<Lit(<<"n", "must", "be", "between", "1", "and", "10">>)>> >>
        ELSE IF ~_validate_size(Get(payload, "size", DEFAULT_SIZE))
        THEN << <<Lit(<<"size", "must", "be", "one", "of", "1024x1024,", "1536x1024,", "1024x1536,", "or", "auto", "for", "GPT", "image", "models.">>)>> >>
        ELSE IF ~_validate_quality(Get(payload, "quality", DEFAULT_QUALITY))
        THEN << <<Lit(<<"quality", "must", "be", "one", "of", "low,", "medium,", "high,", "or", "auto.">>)>> >>
        ELSE IF ~_validate_background(background)
        THEN << <<Lit(<<"background", "must", "be", "one", "of", "transparent,", "opaque,", "or", "auto.">>)>> >>
        ELSE IF oc # None /\ ~(0 <= ToInt(oc) /\ ToInt(oc) <= 100)
        THEN << <<Lit(<<"output_compression", "must", "be", "between", "0", "and", "100">>)>> >>
        ELSE IF ~NormalizeOutputFormatOk(fmt)
        THEN << <<Lit(<<"output-format", "must", "be", "png,", "jpeg,", "jpg,", "or", "webp.">>)>> >>
        ELSE IF ~_validate_transparency(background, _normalize_output_format(fmt))
        THEN << <<Lit(<<"transparent", "background", "requires", "output-format", "png", "or", "webp.">>)>> >>
        ELSE None

EffectiveOutputFormat(job) ==
    _normalize_output_format(Get(JobPayload(job), "output_format", None))

JobN(job) == ToInt(Get(JobPayload(job), "n", <<1>>))

\* ------------------------------------------------------------------------
\* Output planning: file names are strings, a path is directory + name
\* ------------------------------------------------------------------------
\* f"{idx:03d}"
Pad3(idx) ==
    IF idx < 1000
    THEN <<Digit(idx \div 100), Digit((idx \div 10) % 10), Digit(idx % 10)>>
    ELSE <<Digit(idx \div 1000), Digit((idx \div 100) % 10),
           Digit((idx \div 10) % 10), Digit(idx % 10)>>

\* f"{i}" for the sibling index 1..n
IntStr(i) == IF i < 10 THEN <<Digit(i)>> ELSE <<Digit(i \div 10), Digit(i % 10)>>

SpaceChars == {" ", "\t", "\n"}
SlugChars == {LowerChars[k] : k \in 1..26} \cup {Digits[k] : k \in 1..10}
IsSlugChar(c) == c \in SlugChars

\* drop the leading characters that are in chars
RECURSIVE LStrip(_, _)
LStrip(s, chars) ==
    IF s # <<>> /\ Head(s) \in chars THEN LStrip(Tail(s), chars) ELSE s

\* drop the trailing characters that are in chars
RECURSIVE RStrip(_, _)
RStrip(s, chars) ==
    IF s # <<>> /\ s[Len(s)] \in chars
    THEN RStrip(SubSeq(s, 1, Len(s) - 1), chars) ELSE s

\* drop the leading characters that are not slug characters
RECURSIVE SkipNonSlug(_)
SkipNonSlug(s) ==
    IF s # <<>> /\ ~IsSlugChar(Head(s)) THEN SkipNonSlug(Tail(s)) ELSE s

\* str.strip()
Strip(s) == RStrip(LStrip(s, SpaceChars), SpaceChars)

\* re.sub(r"[^a-z0-9]+", "-", value)
RECURSIVE SubNonAlnumRuns(_)
SubNonAlnumRuns(s) ==
    IF s = <<>> THEN <<>>
    ELSE IF IsSlugChar(Head(s)) THEN <<Head(s)>> \o SubNonAlnumRuns(Tail(s))
    ELSE <<"-">> \o SubNonAlnumRuns(SkipNonSlug(s))

\* re.sub(r"-{2,}", "-", value)
RECURSIVE SubHyphenRuns(_)
SubHyphenRuns(s) ==
    IF s = <<>> THEN <<>>
    ELSE IF Head(s) = "-" THEN <<"-">> \o SubHyphenRuns(LStrip(s, {"-"}))
    ELSE <<Head(s)>> \o SubHyphenRuns(Tail(s))

\* s[:k]
Prefix(s, k) == SubSeq(s, 1, IF Len(s) < k THEN Len(s) ELSE k)

\* the only element of a singleton
Only(S) == CHOOSE x \in S : TRUE

\* each assignment to `value` of lines 329-331 works on the value of the one
\* before
_slugify(value) ==
    Only({ IF v3 # <<>> THEN Prefix(v3, 60) ELSE <<"j","o","b">> :
             v3 \in { RStrip(LStrip(SubHyphenRuns(v2), {"-"}), {"-"}) :
                        v2 \in { SubNonAlnumRuns(v1) :
                                   v1 \in {Lower(Strip(value))} } } })

\* position of the last occurrence of character c in s, 0 when absent
LastIndexOf(c, s) ==
    IF \E k \in 1..Len(s) : s[k] = c
    THEN CHOOSE k \in 1..Len(s) : s[k] = c /\ \A j \in (k+1)..Len(s) : s[j] # c
    ELSE 0

\* p.split("/"), cur being the component that is read
RECURSIVE SplitParts(_, _)
SplitParts(p, cur) ==
    IF p = <<>> THEN <<cur>>
    ELSE IF Head(p) = "/" THEN <<cur>> \o SplitParts(Tail(p), <<>>)
    ELSE SplitParts(Tail(p), Append(cur, Head(p)))

\* pathlib drops the empty components and the "." components of a path
IsPart(c) == c # <<>> /\ c # <<".">>

\* the components of Path(p) below its root
PathParts(p) == SelectSeq(SplitParts(p, <<>>), IsPart)

\* variant: the hint is used whole
WholeHint(p) == p

\* Path(p).name: the last component, empty for "/", "." and ""
PathName(p) ==
    LET parts == PathParts(p)
    IN  IF parts = <<>> THEN <<>> ELSE parts[Len(parts)]

\* Path.suffix of a file name
NameSuffix(name) ==
    LET i == LastIndexOf(".", name)
    IN  IF 1 < i /\ i < Len(name) THEN SubSeq(name, i, Len(name)) ELSE <<>>

\* Path.stem of a file name
NameStem(name) ==
    LET i == LastIndexOf(".", name)
    IN  IF 1 < i /\ i < Len(name) THEN SubSeq(name, 1, i - 1) ELSE name

\* "." + output_format
Ext(output_format) ==
    CASE output_format = "png" -> <<".","p","n","g">>
      [] output_format = "jpeg" -> <<".","j","p","e","g">>
      [] output_format = "webp" -> <<".","w","e","b","p">>

OutDir == <<"o","u","t">>

\* the directory d as a path of the file system
Dir(d) == [dir |-> <<>>, name |-> d]

\* line 391: out_dir.mkdir(parents=True, exist_ok=True)
Mkdir(files, d) == files \cup {Dir(d)}

\* line 394: the job gives a hint
Hinted(explicit_out) == explicit_out # None /\ explicit_out[1] # <<>>

\* line 397: Path.with_suffix raises ValueError for a path without a name
EmptyName(explicit_out) ==
    Hinted(explicit_out) /\ PathName(explicit_out[1]) = <<>>

\* variant: mkdir without exist_ok raises FileExistsError
MkdirRaisesIfExists(files, d) == Dir(d) \in files

\* line 391: with exist_ok=True an existing directory is accepted
MkdirRaises(files, d) == FALSE

\* _job_output_paths raises instead of returning
PlanRaises(files, out_dir, explicit_out) ==
    MkdirRaises(files, out_dir) \/ EmptyName(explicit_out)

\* variant: the number is appended after the extension
SiblingAfterSuffix(baseName, i) == baseName \o <<"-">> \o IntStr(i)

\* line 410: base.with_name(f"{base.stem}-{i}{base.suffix}")
Sibling(baseName, i) ==
    NameStem(baseName) \o <<"-">> \o IntStr(i) \o NameSuffix(baseName)

_job_output_paths(out_dir, output_format, idx, prompt, n, explicit_out) ==
    LET ext == Ext(output_format)
        \* lines 394-402: the name of the hint, with ext when it has no suffix
        FromHint(hintName) ==
            IF NameSuffix(hintName) = <<>> THEN hintName \o ext ELSE hintName
        \* lines 407-412: the base path, or its n numbered siblings
        Paths(baseName) ==
            IF n = 1
            THEN << [dir |-> out_dir, name |-> baseName] >>
            ELSE [i \in 1..n |-> [dir |-> out_dir, name |-> Sibling(baseName, i)]]
    IN  Only({ Paths(baseName) :
                 baseName \in
                     IF Hinted(explicit_out)
                     THEN {FromHint(hintName) : hintName \in {PathName(explicit_out[1])}}
                     ELSE {Pad3(idx) \o <<"-">> \o _slugify(Prefix(prompt, 80)) \o ext} })

_derive_downscale_path(path, suffix) ==
    LET sfx == IF suffix # <<>> /\ suffix[1] # "-" /\ suffix[1] # "_"
               THEN <<"-">> \o suffix ELSE suffix
    IN  [dir |-> path.dir,
         name |-> NameStem(path.name) \o sfx \o NameSuffix(path.name)]

\* ------------------------------------------------------------------------
\* Jobs of the model. A job is the dict of one input line: "prompt" is absent,
\* None (JSON null) or <<text>>; "over" holds job.get(k) for the keys k of
\* base_payload and "out" is job.get("out").
\* ------------------------------------------------------------------------
NoOverrides == [k \in PayloadKeys |-> None]

\* str(v) of a JSON string or null
Str(v) == IF v = None THEN <<"N","o","n","e">> ELSE v[1]

\* "a cat"
JobPlain == [prompt |-> << <<"a"," ","c","a","t">> >>, over |-> NoOverrides, out |-> None]
\* {"prompt": "a dog", "n": 2}
JobTwo ==
    [prompt |-> << <<"a"," ","d","o","g">> >>,
     over |-> [NoOverrides EXCEPT !["n"] = <<2>>], out |-> None]
\* {"prompt": "a cat", "n": 11}
JobBadN ==
    [prompt |-> << <<"a"," ","c","a","t">> >>,
     over |-> [NoOverrides EXCEPT !["n"] = <<11>>], out |-> None]
\* {"prompt": "a cat", "background": "transparent", "output_format": "JPG"}
JobTransparentJpg ==
    [prompt |-> << <<"a"," ","c","a","t">> >>,
     over |-> [NoOverrides EXCEPT !["background"] = <<"transparent">>,
                                  !["output_format"] = <<"JPG">>],
     out |-> None]
\* {"prompt": "a cat", "out": "x/shot"}
JobHint ==
    [prompt |-> << <<"a"," ","c","a","t">> >>, over |-> NoOverrides,
     out |-> << <<"x","/","s","h","o","t">> >>]

\* {"prompt": "a cat", "n": 10.9}
JobFractionN ==
    [prompt |-> << <<"a"," ","c","a","t">> >>,
     over |-> [NoOverrides EXCEPT !["n"] = <<10, 9>>], out |-> None]
\* {"prompt": "a cat", "style": "flat", "fields": {"style": "override"}}
JobStyled ==
    [prompt |-> << <<"a"," ","c","a","t">> >>, over |-> NoOverrides, out |-> None,
     flat |-> [style |-> << <<"f","l","a","t">> >>],
     fields |-> [style |-> << <<"o","v","e","r","r","i","d","e">> >>]]
\* {"prompt": "a cat", "scene": "flat", "fields": {"scene": null, "style": null}}
JobFlatScene ==
    [prompt |-> << <<"a"," ","c","a","t">> >>, over |-> NoOverrides, out |-> None,
     flat |-> [scene |-> << <<"f","l","a","t">> >>],
     fields |-> [scene |-> None, style |-> None]]

\* {"prompt": "a cat", "out": "."}
JobHintDot ==
    [prompt |-> << <<"a"," ","c","a","t">> >>, over |-> NoOverrides, out |-> << <<".">> >>]

\* {"prompt": "a cat", "output_format": "JPG", "n": 2}
JobJpg ==
    [prompt |-> << <<"a"," ","c","a","t">> >>,
     over |-> [NoOverrides EXCEPT !["output_format"] = <<"JPG">>, !["n"] = <<2>>],
     out |-> None]

JobKinds == {JobPlain, JobTwo, JobBadN, JobTransparentJpg, JobHint, JobFractionN,
             JobStyled, JobFlatScene, JobHintDot}

\* ------------------------------------------------------------------------
\* Prompt augmentation (lines 547-549)
\* ------------------------------------------------------------------------
FieldKeys == {"use_case", "scene", "subject", "style", "composition", "lighting",
              "palette", "materials", "text", "constraints", "negative"}

\* _fields_from_args(args) of a run with --style cli
base_fields ==
    [k \in FieldKeys |-> IF k = "style" THEN << <<"c","l","i">> >> ELSE None]

\* args.augment (set_defaults(augment=True))
augment == TRUE

\* job.get("fields", {})
JobFieldsDict(job) == IF "fields" \in DOMAIN job THEN job.fields ELSE <<>>

\* {k: job.get(k) for k in base_fields.keys()}
JobFlatDict(job) ==
    [k \in FieldKeys |->
        IF "flat" \in DOMAIN job /\ k \in DOMAIN job.flat THEN job.flat[k] ELSE None]

\* fields of run_job, lines 547-548
JobFields(job) ==
    _merge_non_null(_merge_non_null(base_fields, JobFieldsDict(job)), JobFlatDict(job))

\* the sections of _augment_prompt_fields in the order the function appends
\* them; the prompt is section 2
SectionKeys == <<"use_case", "prompt", "scene", "subject", "style", "composition",
                 "lighting", "palette", "materials", "text", "constraints", "negative">>
SectionLabel ==
    [use_case |-> "Use case", prompt |-> "Primary request", scene |-> "Scene/background",
     subject |-> "Subject", style |-> "Style/medium",
     composition |-> "Composition/framing", lighting |-> "Lighting/mood",
     palette |-> "Color palette", materials |-> "Materials/textures",
     text |-> "Text (verbatim)", constraints |-> "Constraints", negative |-> "Avoid"]

\* the lines of the augmented prompt, each a label and a value
RECURSIVE SectionsFrom(_, _, _)
SectionsFrom(k, prompt, fields) ==
    IF k > Len(SectionKeys) THEN <<>>
    ELSE LET key == SectionKeys[k]
             rest == SectionsFrom(k + 1, prompt, fields)
         IN  IF key = "prompt"
             THEN << [label |-> SectionLabel[key], value |-> prompt] >> \o rest
             ELSE IF Get(fields, key, None) # None /\ fields[key][1] # <<>>
             THEN << [label |-> SectionLabel[key], value |-> fields[key][1]] >> \o rest
             ELSE rest

_augment_prompt_fields(aug, prompt, fields) ==
    IF ~aug THEN << [label |-> "", value |-> prompt] >>
    ELSE SectionsFrom(1, prompt, fields)

\* ------------------------------------------------------------------------
\* The input file: a line is its text `raw`; a line of JSON text also has
\* `item`, the object json.loads returns for it, and a line that json.loads
\* rejects has none
\* ------------------------------------------------------------------------
MAX_BATCH_JOBS == 500

Line(text) == [raw |-> text]
JsonLine(item) == [raw |-> <<"{","}">>, item |-> item]

LineBlank == Line(<<>>)
LineSpaces == Line(<<" "," ">>)
LineComment == Line(<<"#"," ","x">>)
LineIndentedComment == Line(<<" ","#","x">>)
LinePlain == Line(<<"a"," ","c","a","t">>)
LinePadded == Line(<<" ","a"," ","d","o","g"," ">>)
LineBadJson == Line(<<"{","x">>)
\* {"n": 2}
LineNoPrompt == JsonLine([over |-> [NoOverrides EXCEPT !["n"] = <<2>>], out |-> None])
\* {"prompt": ""}
LineEmptyPrompt == JsonLine([prompt |-> << <<>> >>, over |-> NoOverrides, out |-> None])
\* {"prompt": "  "}
LineBlankPrompt ==
    JsonLine([prompt |-> << <<" "," ">> >>, over |-> NoOverrides, out |-> None])
\* {"prompt": null}
LineNullPrompt == JsonLine([prompt |-> None, over |-> NoOverrides, out |-> None])

\* variant: comment lines are read as prompts
SkippedIfBlank(line) == line = <<>>

\* line 356
Skipped(line) == line = <<>> \/ StartsWithAt(<<"#">>, line, 1)

\* _normalize_job on a str (is_str) or a dict; died when it calls _die
_normalize_job(job, is_str) ==
    IF is_str
    THEN [died |-> Strip(job) = <<>>,
          job |-> [prompt |-> <<Strip(job)>>, over |-> NoOverrides, out |-> None]]
    ELSE [died |-> "prompt" \notin DOMAIN job \/ Strip(Str(job.prompt)) = <<>>,
          job |-> job]

\* lines 355-357: the line is kept
Kept(l) == ~Skipped(Strip(l.raw))

\* lines 358-366 for one kept line: the job appended, or died when
\* json.loads raises JSONDecodeError or _normalize_job calls _die
LineJob(l) ==
    LET line == Strip(l.raw)
        json == StartsWithAt(<<"{">>, line, 1)
    IN  IF json /\ "item" \notin DOMAIN l THEN [died |-> TRUE, job |-> <<>>]
        ELSE IF json THEN _normalize_job(l.item, FALSE)
        ELSE _normalize_job(line, TRUE)

\* the message of _die for the kept line l, line line_no of the file, when
\* LineJob(l) died (lines 339, 343 and 366)
LineError(l, line_no) ==
    LET line == Strip(l.raw)
        json == StartsWithAt(<<"{">>, line, 1)
    IN  IF json /\ "item" \notin DOMAIN l
        THEN <<Lit(<<"Invalid", "JSON", "on", "line">>), Val(line_no), Lit(<<":">>), Val("JSONDecodeError")>>
        ELSE IF json THEN <<Lit(<<"Missing", "prompt", "for", "job">>), Val(line_no)>>
        ELSE <<Lit(<<"Empty", "prompt", "at", "job">>), Val(line_no)>>

\* the loop of lines 354-366: the jobs appended up to the first line that
\* stops the run, if there is one, and the message of that line
ReadLines(lines) ==
    LET kept == SelectSeq(lines, Kept)
        read == [k \in 1..Len(kept) |-> LineJob(kept[k])]
        bad == {k \in 1..Len(kept) : read[k].died}
        last == IF bad = {} THEN Len(kept)
                ELSE (CHOOSE k \in bad : \A m \in bad : k <= m) - 1
        badLines == {k \in 1..Len(lines) : Kept(lines[k]) /\ LineJob(lines[k]).died}
        line_no == CHOOSE k \in badLines : \A m \in badLines : k <= m
    IN  [died |-> bad # {},
         jobs |-> [k \in 1..last |-> read[k].job],
         message |-> IF bad = {} THEN None ELSE <<LineError(lines[line_no], line_no)>>]

\* variant: the ceiling itself is refused
TooManyFromCeiling(count) == count >= MAX_BATCH_JOBS

\* line 369
TooMany(count) == count > MAX_BATCH_JOBS

_read_jobs_jsonl(lines) ==
    LET R == ReadLines(lines)
    IN  IF R.died THEN [died |-> TRUE, jobs |-> <<>>, message |-> R.message]
        ELSE IF R.jobs = <<>>
        THEN [died |-> TRUE, jobs |-> <<>>,
              message |-> << <<Lit(<<"No", "jobs", "found", "in", "input", "file.">>)>> >>]
        ELSE IF TooMany(Len(R.jobs))
        THEN [died |-> TRUE, jobs |-> <<>>,
              message |-> << <<Lit(<<"Too", "many", "jobs">>), Val(Len(R.jobs)), Lit(<<"Max", "is">>),
                               Val(MAX_BATCH_JOBS)>> >>]
        ELSE R

\* ------------------------------------------------------------------------
\* State
\* ------------------------------------------------------------------------
VARIABLES
    input,             \* lines of the file args.input
    jobs,              \* list returned by _read_jobs_jsonl
    concurrency,       \* args.concurrency
    max_attempts,      \* args.max_attempts
    fail_fast,         \* args.fail_fast
    force,             \* args.force
    downscale_max_dim, \* args.downscale_max_dim (an option)
    downscale_suffix,  \* args.downscale_suffix
    fs,                \* paths that exist on the file system
    overwritten,       \* paths written while a file existed there
    pc,                \* position of each run_job task
    must_cancel,       \* tasks cancelled by Task.cancel that have not resumed yet
    sem_value,         \* sem._value
    sem_waiters,       \* sem._waiters, as the tasks that own the futures
    payload,           \* payload of each run_job (an option)
    attempt,           \* loop variable of _generate_one_with_retries
    last_exc,          \* last_exc of _generate_one_with_retries
    calls,             \* remote invocations issued for each job
    sleeps,            \* backoff sleeps started for each job
    sleep_s,           \* sleep_s of the last backoff sleep, in tenths of a second
    failures,          \* remote invocations of each job that raised
    response,          \* the invocation whose response the retry loop returned
    raised,            \* the exception the retry loop propagated
    result,            \* outcome recorded by run_job
    any_failed,        \* any_failed of _run_generate_batch
    main,              \* position of _run_generate_batch
    ready_first,       \* tasks whose wake-up is queued ahead of gather's callback
    exit_status,       \* exit status of the process (an option)
    die_message,       \* message printed by _die (an option)
    plan_args,         \* arguments of the calls of _job_output_paths that are studied alone
    plans,             \* what these calls returned or raised, in order
    dry_report         \* what a run of the same batch with --dry-run printed and
                       \* returned (an option, None before that run)

args == <<input, concurrency, max_attempts, fail_fast, force, downscale_max_dim,
          downscale_suffix>>
config == <<args, jobs>>
\* the locals of the run_job tasks and of their retry loops
locals == <<payload, attempt, last_exc, calls, sleeps, sleep_s, failures, response,
            raised, result>>
planner == <<plan_args, plans>>
vars == <<args, jobs, fs, overwritten, pc, must_cancel, sem_value, sem_waiters,
          locals, any_failed, main, ready_first, exit_status, die_message, planner,
          dry_report>>

JobIds == 1..Len(jobs)
Finished == {"success", "failed", "invalid", "exists", "cancelled", "crashed"}

\* ------------------------------------------------------------------------
\* asyncio.Semaphore (acquire, release, _wake_up_next)
\* ------------------------------------------------------------------------
\* variant: a slot is still handed out when the counter is zero
SemLockedOffByOne == sem_value < 0

\* Semaphore.locked(): no free slot, or a waiter whose future is not cancelled
SemLocked == sem_value = 0 \/ sem_waiters # <<>>

\* first waiter whose future is not done, 0 when there is none
FirstPending(waiters, pcf) ==
    IF \E k \in 1..Len(waiters) : pcf[waiters[k]] = "waiting"
    THEN waiters[CHOOSE k \in 1..Len(waiters) :
                    /\ pcf[waiters[k]] = "waiting"
                    /\ \A j \in 1..(k - 1) : pcf[waiters[j]] # "waiting"]
    ELSE 0

\* Semaphore._wake_up_next() on counter value and task positions pcf
WakeUpNext(value, waiters, pcf) ==
    LET w == FirstPending(waiters, pcf)
    IN  IF w = 0 THEN [value |-> value, pc |-> pcf]
        ELSE [value |-> value - 1, pc |-> [pcf EXCEPT ![w] = "woken"]]

\* Semaphore.release()
SemRelease(value, waiters, pcf) == WakeUpNext(value + 1, waiters, pcf)

\* sequence s without the element x
RECURSIVE Remove(_, _)
Remove(s, x) ==
    IF s = <<>> THEN <<>>
    ELSE IF Head(s) = x THEN Tail(s) ELSE <<Head(s)>> \o Remove(Tail(s), x)

\* ------------------------------------------------------------------------
\* Write step
\* ------------------------------------------------------------------------
JobOutputs(i) ==
    _job_output_paths(OutDir, EffectiveOutputFormat(jobs[i]), i, Strip(Str(jobs[i].prompt)),
                      JobN(jobs[i]), jobs[i].out)

\* variant: the destination is never looked at
NeverBlocked(path, files) == FALSE

\* lines 286 and 298: the destination exists and --force is not given
Blocked(path, files) == path \in files /\ ~force

\* the message of lines 287 and 299
OutputExists(path) ==
    <<Lit(<<"Output", "already", "exists:">>), Val(path), Lit(<<"(use", "--force", "to", "overwrite)">>)>>

\* _decode_write_and_downscale from image idx on: the files afterwards, the
\* paths written over an existing file, and whether _die was called
RECURSIVE WriteFrom(_, _, _, _, _)
WriteFrom(files, replaced, outputs, images, idx) ==
    IF idx > images \/ idx > Len(outputs)
    THEN [fs |-> files, replaced |-> replaced, died |-> FALSE, message |-> None]
    ELSE
        LET out_path == outputs[idx]
            derived == _derive_downscale_path(out_path, downscale_suffix)
            files1 == files \cup {out_path}
            replaced1 == replaced \cup ({out_path} \cap files)
        IN  IF Blocked(out_path, files)
            THEN [fs |-> files, replaced |-> replaced, died |-> TRUE,
                  message |-> <<OutputExists(out_path)>>]
            ELSE IF downscale_max_dim = None
            THEN WriteFrom(files1, replaced1, outputs, images, idx + 1)
            ELSE IF Blocked(derived, files1)
            THEN [fs |-> files1, replaced |-> replaced1, died |-> TRUE,
                  message |-> <<OutputExists(derived)>>]
            ELSE WriteFrom(files1 \cup {derived}, replaced1 \cup ({derived} \cap files1),
                           outputs, images, idx + 1)

_decode_write_and_downscale(files, replaced, outputs, images) ==
    WriteFrom(files, replaced, outputs, images, 1)

\* ------------------------------------------------------------------------
\* Initial states: the arguments accepted by main, the input file and the
\* output directory
\* ------------------------------------------------------------------------
PlainBatch(n) == [i \in 1..n |-> LinePlain]

\* the write environment: args.force, args.downscale_max_dim, existing files
File(name) == [dir |-> OutDir, name |-> name]
WriteEnv(f, d, files) ==
    [force |-> f, downscale_max_dim |-> d,
     fs |-> IF files = {} THEN {} ELSE Mkdir(files, OutDir)]
DefaultEnv == WriteEnv(FALSE, None, {})
\* out/001-a-cat.png exists
CatExists(f) ==
    WriteEnv(f, None, {File(<<"0","0","1","-","a","-","c","a","t",".","p","n","g">>)})
\* out/001-a-dog-2.png exists
SecondDogExists ==
    WriteEnv(FALSE, None,
             {File(<<"0","0","1","-","a","-","d","o","g","-","2",".","p","n","g">>)})
\* --downscale-max-dim 512, with and without out/shot-web.png
Downscale(files) == WriteEnv(FALSE, <<512>>, files)
ShotWeb == File(<<"s","h","o","t","-","w","e","b",".","p","n","g">>)

WriteEnvs == {CatExists(FALSE), CatExists(TRUE), SecondDogExists,
              Downscale({}), Downscale({ShotWeb})}

\* values of --downscale-suffix (line 823): the default "-web", "web", ""
DEFAULT_DOWNSCALE_SUFFIX == <<"-","w","e","b">>
DownscaleSuffixes == {DEFAULT_DOWNSCALE_SUFFIX, <<"w","e","b">>, <<>>}

\* input files of n lines: valid jobs, an invalid job first or last, valid
\* jobs whose destinations exist or not, and two jobs with the same hint
ScenariosOf(n) ==
    { [input |-> PlainBatch(n), env |-> DefaultEnv],
      [input |-> [PlainBatch(n) EXCEPT ![1] = JsonLine(JobTransparentJpg)],
       env |-> DefaultEnv],
      [input |-> [PlainBatch(n) EXCEPT ![n] = JsonLine(JobBadN)], env |-> DefaultEnv],
      [input |-> PlainBatch(n), env |-> CatExists(FALSE)],
      [input |-> PlainBatch(n), env |-> CatExists(TRUE)],
      [input |-> [PlainBatch(n) EXCEPT ![1] = JsonLine(JobTwo)], env |-> SecondDogExists],
      [input |-> [PlainBatch(n) EXCEPT ![1] = JsonLine(JobTwo)], env |-> Downscale({})],
      [input |-> [PlainBatch(n) EXCEPT ![n] = JsonLine(JobHint)],
       env |-> Downscale({ShotWeb})],
      [input |-> [PlainBatch(n) EXCEPT ![1] = JsonLine(JobHint), ![n] = JsonLine(JobHint)],
       env |-> DefaultEnv] }

Scenarios == UNION {ScenariosOf(n) : n \in 1..MaxJobs}

\* the state in which _run_generate_batch is entered; sem_value is the value
\* the semaphore of line 538 is created with
InitRun ==
    /\ jobs = <<>>
    /\ overwritten = {}
    /\ pc = <<>>
    /\ must_cancel = {}
    /\ sem_value = concurrency
    /\ sem_waiters = <<>>
    /\ payload = <<>>
    /\ attempt = <<>>
    /\ last_exc = <<>>
    /\ calls = <<>>
    /\ sleeps = <<>>
    /\ sleep_s = <<>>
    /\ failures = <<>>
    /\ response = <<>>
    /\ raised = <<>>
    /\ result = <<>>
    /\ any_failed = FALSE
    /\ main = "start"
    /\ ready_first = {}
    /\ exit_status = None
    /\ die_message = None
    /\ plan_args = None
    /\ plans = <<>>
    /\ dry_report = None

\* the batches of MaxJobs jobs run without retries
Init ==
    /\ \E s \in Scenarios :
        /\ input = s.input
        /\ force = s.env.force
        /\ downscale_max_dim = s.env.downscale_max_dim
        /\ fs = s.env.fs
    /\ concurrency \in 1..MaxConcurrency
    /\ max_attempts \in 1..MaxBatchAttempts
    /\ Len(input) = MaxJobs => max_attempts = 1
    /\ fail_fast \in BOOLEAN
    /\ downscale_suffix = <<"-","w","e","b">>
    /\ InitRun

\* a run of one job, with every kind of job and every --max-attempts
InitRetry ==
    /\ input \in {<<JsonLine(j)>> : j \in JobKinds}
    /\ \E e \in {DefaultEnv} \cup WriteEnvs :
        /\ force = e.force
        /\ downscale_max_dim = e.downscale_max_dim
        /\ fs = e.fs
    /\ concurrency \in 1..MaxConcurrency
    /\ max_attempts \in 1..MaxAttemptsBound
    /\ fail_fast \in BOOLEAN
    /\ downscale_suffix \in IF downscale_max_dim = None
                            THEN {DEFAULT_DOWNSCALE_SUFFIX} ELSE DownscaleSuffixes
    /\ InitRun

\* input files of up to MaxLines lines of every kind, run one job at a time
\* without retries
ParseLines ==
    {LineBlank, LineSpaces, LineComment, LineIndentedComment, LinePlain, LinePadded,
     JsonLine(JobTwo), LineBadJson, LineNoPrompt, LineEmptyPrompt, LineBlankPrompt,
     LineNullPrompt}

InitParse ==
    /\ input \in UNION {[1..n -> ParseLines] : n \in 1..MaxLines}
    /\ force = FALSE
    /\ downscale_max_dim = None
    /\ fs = {}
    /\ concurrency = 1
    /\ max_attempts = 1
    /\ fail_fast = FALSE
    /\ downscale_suffix = <<"-","w","e","b">>
    /\ InitRun

\* input files around the ceiling of MAX_BATCH_JOBS jobs: up to MaxLines blank,
\* comment or prompt lines followed by a long run of prompts
CountLines == {LineBlank, LineComment, LinePlain}

InitCount ==
    /\ \E head \in UNION {[1..n -> CountLines] : n \in 0..MaxLines},
          k \in {0} \cup ((MAX_BATCH_JOBS - MaxLines)..(MAX_BATCH_JOBS + 1)) :
            input = head \o PlainBatch(k)
    /\ force = FALSE
    /\ downscale_max_dim = None
    /\ fs = {}
    /\ concurrency = 1
    /\ max_attempts = 1
    /\ fail_fast = FALSE
    /\ downscale_suffix = <<"-","w","e","b">>
    /\ InitRun

\* calls of _job_output_paths alone: every output format, index, number of
\* images up to MaxImages, prompts with and without slug characters, no
\* hint, an empty hint and hints with directories, traversal or no name; the
\* output directory exists or not
PlanHints ==
    {None, <<<<>>>>,
     <<<<"x","/","s","h","o","t">>>>,
     <<<<".",".","/","s","h","o","t">>>>,
     <<<<".",".">>>>,
     <<<<"x","/">>>>,
     <<<<"/">>>>,
     <<<<".">>>>,
     <<<<"a","/",".",".","/","b",".","p","n","g">>>>,
     <<<<"s","h","o","t",".","j","p","g">>>>,
     <<<<"/","e","t","c","/","p","a","s","s","w","d">>>>}

PlanPrompts == {<<"a"," ","c","a","t">>, <<"A"," ","D","o","g","!">>, <<"!","!">>}

InitPlan ==
    /\ plan_args \in [output_format : {"png", "jpeg", "webp"},
                      idx : 1..MaxJobs,
                      prompt : PlanPrompts,
                      n : 1..MaxImages,
                      explicit_out : PlanHints]
    /\ plans = <<>>
    /\ dry_report = None
    /\ fs \in {{}, {Dir(OutDir)}}
    /\ input = <<>>
    /\ force = FALSE
    /\ downscale_max_dim = None
    /\ concurrency = 1
    /\ max_attempts = 1
    /\ fail_fast = FALSE
    /\ downscale_suffix = <<"-","w","e","b">>
    /\ jobs = <<>>
    /\ overwritten = {}
    /\ pc = <<>>
    /\ must_cancel = {}
    /\ sem_value = concurrency
    /\ sem_waiters = <<>>
    /\ payload = <<>>
    /\ attempt = <<>>
    /\ last_exc = <<>>
    /\ calls = <<>>
    /\ sleeps = <<>>
    /\ sleep_s = <<>>
    /\ failures = <<>>
    /\ response = <<>>
    /\ raised = <<>>
    /\ result = <<>>
    /\ any_failed = FALSE
    /\ main = "start"
    /\ ready_first = {}
    /\ exit_status = None
    /\ die_message = None

\* one call of _job_output_paths (lines 382-412) with the arguments plan_args:
\* the output directory is created, then the list of paths is returned or
\* ValueError is raised
Plan ==
    /\ plan_args # None
    /\ Len(plans) < MaxPlans
    /\ fs' = Mkdir(fs, OutDir)
    /\ plans' = Append(plans,
            IF PlanRaises(fs, OutDir, plan_args.explicit_out)
            THEN [raised |-> TRUE, paths |-> <<>>]
            ELSE [raised |-> FALSE,
                  paths |-> _job_output_paths(OutDir, plan_args.output_format,
                                plan_args.idx, plan_args.prompt, plan_args.n,
                                plan_args.explicit_out)])
    /\ UNCHANGED <<args, jobs, overwritten, pc, must_cancel, sem_value, sem_waiters,
                   locals, any_failed, main, ready_first, exit_status, die_message,
                   plan_args, dry_report>>

\* ------------------------------------------------------------------------
\* _run_generate_batch up to line 599
\* ------------------------------------------------------------------------
\* lines 478-599: the jobs are read, then the semaphore and one task per job
\* are created; _die in _read_jobs_jsonl ends the process with status 1
ReadJobs ==
    /\ main = "start"
    /\ \E R \in {_read_jobs_jsonl(input)} : \E ids \in {1..Len(R.jobs)} :
           IF R.died
           THEN /\ main' = "exited"
                /\ exit_status' = <<1>>
                /\ die_message' = R.message
                /\ UNCHANGED <<jobs, pc, locals>>
           ELSE /\ jobs' = R.jobs
                /\ pc' = [i \in ids |-> "new"]
                /\ payload' = [i \in ids |-> None]
                /\ attempt' = [i \in ids |-> 0]
                /\ last_exc' = [i \in ids |-> NoExc]
                /\ calls' = [i \in ids |-> 0]
                /\ sleeps' = [i \in ids |-> 0]
                /\ sleep_s' = [i \in ids |-> None]
                /\ failures' = [i \in ids |-> 0]
                /\ response' = [i \in ids |-> 0]
                /\ raised' = [i \in ids |-> NoExc]
                /\ result' = [i \in ids |-> "none"]
                /\ main' = "gather"
                /\ UNCHANGED <<exit_status, die_message>>
    /\ UNCHANGED <<args, planner, dry_report, fs, overwritten, must_cancel, sem_value, sem_waiters,
                   any_failed, ready_first>>

\* ------------------------------------------------------------------------
\* Cancellation of the tasks that are not done by the task cleanup of
\* asyncio.run
\* ------------------------------------------------------------------------
CancelAll(pcf) == [j \in DOMAIN pcf |-> IF pcf[j] \in Finished THEN pcf[j] ELSE "cancelled"]

\* variant: Semaphore.acquire without its CancelledError handler, a woken
\* waiter that is cancelled keeps the slot it was handed
HoldsSlotOnceRunning(position) == position \in {"inflight", "sleeping"}

\* the task is inside `async with sem` (lines 571-581), or it is the waiter
\* _wake_up_next took the slot for
HoldsSlot(position) == position \in {"inflight", "sleeping", "woken"}

\* slots given back by the cancelled tasks: the holders leave `async with sem`,
\* a woken waiter returns the slot it was handed
SlotsReturned(pcf) == Cardinality({j \in DOMAIN pcf : HoldsSlot(pcf[j])})

\* _die inside task i: SystemExit is not an Exception, so it leaves run_job and
\* the event loop; asyncio.run cancels the remaining tasks and the process
\* exits with status 1. Task i ends as "invalid" (a validation of lines
\* 556-559 failed) or "exists" (line 287 or 299 found the destination).
Die(i, how, pcf, value, files, message) ==
    /\ die_message' = message
    /\ pc' = [CancelAll(pcf) EXCEPT ![i] = how]
    /\ sem_value' = value + SlotsReturned([pcf EXCEPT ![i] = how])
    /\ sem_waiters' = <<>>
    /\ fs' = files
    /\ main' = "exited"
    /\ exit_status' = <<1>>

\* variant: a task that sleeps in backoff does not see the cancellation
CancelLostInBackoff(i) == i \in must_cancel /\ pc[i] # "sleeping"

\* Task.cancel was called on task i: when the task resumes, CancelledError is
\* raised at its await instead of the awaited result
CancelPending(i) == i \in must_cancel

\* ------------------------------------------------------------------------
\* run_job
\* ------------------------------------------------------------------------
\* payload of run_job when it reaches line 562
SentPayload(job) ==
    LET p == JobPayload(job)
        q == IF "output_format" \in DOMAIN p
             THEN [p EXCEPT !["output_format"] = <<EffectiveOutputFormat(job)>>]
             ELSE p
        augmented == _augment_prompt_fields(augment, Strip(Str(job.prompt)), JobFields(job))
    IN  [k \in (DOMAIN q) \cup {"prompt"} |-> IF k = "prompt" THEN augmented ELSE q[k]]

\* first step of task i: lines 544-569, then `async with sem` and, with a free
\* slot, the first remote invocation. _job_output_paths creates the output
\* directory; when it raises ValueError the task ends with that exception,
\* which is raised outside the handler of line 592.
StartJob(i) ==
    /\ main = "gather"
    /\ pc[i] = "new"
    /\ \A j \in 1..(i - 1) : pc[j] # "new"
    /\ IF ~PayloadValid(jobs[i])
       THEN /\ Die(i, "invalid", pc, sem_value, fs, ValidationError(jobs[i]))
            /\ UNCHANGED <<payload, attempt, calls>>
       ELSE /\ payload' = [payload EXCEPT ![i] = <<SentPayload(jobs[i])>>]
            /\ fs' = Mkdir(fs, OutDir)
            /\ UNCHANGED <<main, exit_status, die_message>>
            /\ IF PlanRaises(fs, OutDir, jobs[i].out)
               THEN /\ pc' = [pc EXCEPT ![i] = "crashed"]
                    /\ UNCHANGED <<sem_value, sem_waiters, attempt, calls>>
               ELSE IF ~SemLocked
               THEN /\ sem_value' = sem_value - 1
                    /\ pc' = [pc EXCEPT ![i] = "inflight"]
                    /\ attempt' = [attempt EXCEPT ![i] = 1]
                    /\ calls' = [calls EXCEPT ![i] = @ + 1]
                    /\ UNCHANGED sem_waiters
               ELSE /\ sem_waiters' = Append(sem_waiters, i)
                    /\ pc' = [pc EXCEPT ![i] = "waiting"]
                    /\ UNCHANGED <<sem_value, attempt, calls>>
    /\ UNCHANGED <<config, planner, dry_report, overwritten, must_cancel, last_exc, sleeps, sleep_s, failures,
                   response, raised, result, any_failed, ready_first>>

\* line 599 queues the first step of every task before gather suspends
\* _run_generate_batch, so the event loop runs all the first steps before any
\* wake-up, timer, response of the remote service or gather callback
FirstStepsDone == \A j \in JobIds : pc[j] # "new"

\* task i resumes in Semaphore.acquire with the slot release handed to it, and
\* issues its first remote invocation
ResumeJob(i) ==
    /\ ~CancelPending(i)
    /\ FirstStepsDone
    /\ pc[i] = "woken"
    /\ LET waiters == Remove(sem_waiters, i)
           W == IF sem_value > 0 THEN WakeUpNext(sem_value, waiters, pc)
                ELSE [value |-> sem_value, pc |-> pc]
       IN  /\ sem_waiters' = waiters
           /\ sem_value' = W.value
           /\ pc' = [W.pc EXCEPT ![i] = "inflight"]
    /\ attempt' = [attempt EXCEPT ![i] = 1]
    /\ calls' = [calls EXCEPT ![i] = @ + 1]
    /\ UNCHANGED <<config, planner, dry_report, die_message, fs, overwritten, must_cancel, payload, last_exc, sleeps,
                   sleep_s, failures, response, raised, result, any_failed, main,
                   ready_first, exit_status>>

\* the remote invocation of task i returns: the retry loop returns the
\* response, the slot is released, the images are written (lines 580-591)
RemoteResolve(i) ==
    /\ ~CancelPending(i)
    /\ FirstStepsDone
    /\ pc[i] = "inflight"
    /\ response' = [response EXCEPT ![i] = calls[i]]
    /\ last_exc' = [last_exc EXCEPT ![i] = NoExc]
    /\ \E R \in {SemRelease(sem_value, sem_waiters, pc)} :
       \E outputs \in {JobOutputs(i)} :
       \E W \in {_decode_write_and_downscale(fs, overwritten, outputs, JobN(jobs[i]))} :
           /\ overwritten' = W.replaced
           /\ IF W.died
              THEN /\ Die(i, "exists", R.pc, R.value, W.fs, W.message)
                   /\ UNCHANGED result
              ELSE /\ pc' = [R.pc EXCEPT ![i] = "success"]
                   /\ sem_value' = R.value
                   /\ fs' = W.fs
                   /\ result' = [result EXCEPT ![i] = "Success"]
                   /\ UNCHANGED <<sem_waiters, main, exit_status, die_message>>
    /\ UNCHANGED <<config, planner, dry_report, must_cancel, payload, attempt, calls, sleeps, sleep_s,
                   failures, raised, any_failed, ready_first>>

\* variant: `attempt > attempts` instead of `attempt == attempts`
PropagatesAfterLastSleep(exc, a) == ~_is_transient_error(exc) \/ a > max_attempts

\* line 462-465: the retry loop re-raises instead of sleeping
Propagates(exc, a) == ~_is_transient_error(exc) \/ a = max_attempts

\* the retry loop of task i raises exc: the exception leaves `async with sem`
\* (the slot is released) and reaches the handler of lines 592-597. When the
\* handler re-raises for the first time, gather's callback is queued behind
\* the wake-ups that are already queued.
RunJobFails(i, exc) ==
    LET R == SemRelease(sem_value, sem_waiters, pc)
    IN  /\ raised' = [raised EXCEPT ![i] = exc]
        /\ sem_value' = R.value
        /\ pc' = [R.pc EXCEPT ![i] = "failed"]
        /\ any_failed' = TRUE
        /\ result' = [result EXCEPT ![i] = "Failed"]
        /\ ready_first' =
            IF fail_fast /\ ~\E k \in JobIds : pc[k] = "failed"
            THEN {j \in JobIds : R.pc[j] = "woken"}
            ELSE ready_first

\* the remote invocation of task i raises exc (lines 460-473)
RemoteError(i, exc) ==
    /\ ~CancelPending(i)
    /\ FirstStepsDone
    /\ pc[i] = "inflight"
    /\ last_exc' = [last_exc EXCEPT ![i] = exc]
    /\ failures' = [failures EXCEPT ![i] = @ + 1]
    /\ IF Propagates(exc, attempt[i])
       THEN /\ RunJobFails(i, exc)
            /\ UNCHANGED <<sleeps, sleep_s>>
       ELSE /\ pc' = [pc EXCEPT ![i] = "sleeping"]
            /\ sleeps' = [sleeps EXCEPT ![i] = @ + 1]
            /\ sleep_s' = [sleep_s EXCEPT ![i] = <<BackoffDelay(exc, attempt[i])>>]
            /\ UNCHANGED <<raised, sem_value, any_failed, result, ready_first>>
    /\ UNCHANGED <<config, planner, dry_report, die_message, fs, overwritten, must_cancel, sem_waiters, payload, attempt,
                   calls, response, main, exit_status>>

\* asyncio.sleep(sleep_s) of task i is over: next iteration of the retry loop,
\* or line 474 when the loop is exhausted
SleepElapsed(i) ==
    /\ ~CancelPending(i)
    /\ FirstStepsDone
    /\ pc[i] = "sleeping"
    /\ IF attempt[i] + 1 <= max_attempts
       THEN /\ attempt' = [attempt EXCEPT ![i] = @ + 1]
            /\ calls' = [calls EXCEPT ![i] = @ + 1]
            /\ pc' = [pc EXCEPT ![i] = "inflight"]
            /\ UNCHANGED <<sem_value, raised, result, any_failed, ready_first>>
       ELSE /\ RunJobFails(i, last_exc[i])
            /\ UNCHANGED <<attempt, calls>>
    /\ UNCHANGED <<config, planner, dry_report, die_message, fs, overwritten, must_cancel, sem_waiters, payload, last_exc,
                   sleeps, sleep_s, failures, response, main, exit_status>>

\* task i resumes with CancelledError, in the order of the calls of
\* Task.cancel: the error is not an Exception, so it passes the handler of
\* line 460 and the handler of line 592; a task inside `async with sem`
\* releases its slot, a woken waiter gives back the slot it was handed
\* (Semaphore.acquire), a waiter leaves the queue
Cancelled(i) ==
    /\ CancelPending(i)
    /\ \A j \in must_cancel : i <= j
    /\ must_cancel' = must_cancel \ {i}
    /\ LET waiters == Remove(sem_waiters, i)
           R == IF HoldsSlot(pc[i])
                THEN SemRelease(sem_value, waiters, pc)
                ELSE [value |-> sem_value, pc |-> pc]
       IN  /\ sem_waiters' = waiters
           /\ sem_value' = R.value
           /\ pc' = [R.pc EXCEPT ![i] = "cancelled"]
    /\ UNCHANGED <<config, planner, dry_report, die_message, fs, overwritten, locals, any_failed, main, ready_first,
                   exit_status>>

\* ------------------------------------------------------------------------
\* _run_generate_batch after line 599, and _generate_batch
\* ------------------------------------------------------------------------
\* variant: run_job re-raises without looking at args.fail_fast
TaskRaisedAlways(i) == pc[i] = "failed"

\* line 595: run_job re-raises, so the task ends with the exception; so does
\* a task whose planning raised
TaskRaised(i) == (fail_fast /\ pc[i] = "failed") \/ pc[i] = "crashed"

\* lines 603-607: gather raised the exception of a task; Task.cancel is called
\* on the tasks that are not done, which cancels the future a waiter of the
\* semaphore awaits, and the exception leaves the program
MainCancel ==
    /\ main = "gather"
    /\ FirstStepsDone
    /\ \E i \in JobIds : TaskRaised(i)
    /\ \A j \in ready_first : pc[j] # "woken"
    /\ must_cancel' = {j \in JobIds : pc[j] \notin Finished}
    /\ pc' = [j \in JobIds |-> IF pc[j] = "waiting" THEN "wait_cancelled" ELSE pc[j]]
    /\ main' = "raised"
    /\ exit_status' = <<1>>
    /\ UNCHANGED <<config, planner, dry_report, die_message, fs, overwritten, sem_value, sem_waiters, locals, any_failed,
                   ready_first>>

\* variant: any_failed is ignored
ExitCodeZero(failed) == 0

\* line 609
ExitCode(failed) == IF failed THEN 1 ELSE 0

\* lines 602, 609, 613-615: gather returned, every task has returned
MainReturn ==
    /\ main = "gather"
    /\ \A i \in JobIds : pc[i] \in {"success", "failed"}
    /\ ~\E i \in JobIds : TaskRaised(i)
    /\ main' = "returned"
    /\ exit_status' = <<ExitCode(any_failed)>>
    /\ UNCHANGED <<config, planner, dry_report, die_message, fs, overwritten, pc, must_cancel, sem_value, sem_waiters,
                   locals, any_failed, ready_first>>

\* ------------------------------------------------------------------------
\* The dry-run branch of _run_generate_batch (lines 493-535)
\* ------------------------------------------------------------------------
\* variant: the request is printed as merged, without lines 510-511
DryRunPayloadRaw(job) ==
    LET prompt == Strip(Str(job.prompt))
        fields == _merge_non_null(_merge_non_null(base_fields, JobFieldsDict(job)),
                                  JobFlatDict(job))
        augmented == _augment_prompt_fields(augment, prompt, fields)
        job_payload == DropNone(_merge_non_null(base_payload, job.over))
    IN  [k \in (DOMAIN job_payload) \cup {"prompt"} |->
            IF k = "prompt" THEN augmented ELSE job_payload[k]]

\* job_payload of lines 495-511
DryRunPayload(job) ==
    LET prompt == Strip(Str(job.prompt))
        fields == _merge_non_null(_merge_non_null(base_fields, JobFieldsDict(job)),
                                  JobFlatDict(job))
        augmented == _augment_prompt_fields(augment, prompt, fields)
        job_payload == DropNone(_merge_non_null(base_payload, job.over))
        effective_output_format ==
            _normalize_output_format(Get(job_payload, "output_format", None))
    IN  [k \in (DOMAIN job_payload) \cup {"prompt"} |->
            IF k = "prompt" THEN augmented
            ELSE IF k = "output_format" THEN <<effective_output_format>>
            ELSE job_payload[k]]

\* the request printed for job i, lines 513-534: the keys of job_payload are
\* printed beside "job", "outputs" and "outputs_downscaled"
DryRunRequest(i, job) ==
    LET job_payload == DryRunPayload(job)
        outputs ==
            _job_output_paths(OutDir,
                _normalize_output_format(Get(job_payload, "output_format", None)),
                i, Strip(Str(job.prompt)), ToInt(Get(job_payload, "n", <<1>>)), job.out)
    IN  [job |-> i,
         outputs |-> outputs,
         outputs_downscaled |->
            IF downscale_max_dim = None THEN None
            ELSE << [k \in 1..Len(outputs) |->
                        _derive_downscale_path(outputs[k], downscale_suffix)] >>,
         payload |-> job_payload]

\* the loop of line 494 stops at job i: its payload fails validation (_die)
\* or its hint has no name (ValueError of _job_output_paths)
DryRunStops(files, js, i) ==
    ~PayloadValid(js[i]) \/ PlanRaises(files, OutDir, js[i].out)

\* the batch is run with --dry-run before it is run for real: the jobs are
\* read, a request is printed for every job before the first that stops the
\* loop, and line 535 returns 0 when none does. _job_output_paths creates the
\* output directory for the first job that reaches it.
DryRun ==
    /\ main = "start"
    /\ dry_report = None
    /\ \E R \in {_read_jobs_jsonl(input)} :
       \E stop \in {i \in 1..(Len(R.jobs) + 1) :
                      /\ i <= Len(R.jobs) => DryRunStops(fs, R.jobs, i)
                      /\ \A j \in 1..(i - 1) : ~DryRunStops(fs, R.jobs, j)} :
       \E requests \in {[i \in 1..(stop - 1) |-> DryRunRequest(i, R.jobs[i])]} :
           IF R.died
           THEN /\ dry_report' = << [exit |-> <<1>>, raised |-> FALSE,
                                     message |-> R.message, requests |-> <<>>] >>
                /\ fs' = fs
           ELSE IF stop > Len(R.jobs)
           THEN /\ dry_report' = << [exit |-> <<0>>, raised |-> FALSE,
                                     message |-> None, requests |-> requests] >>
                /\ fs' = Mkdir(fs, OutDir)
           ELSE IF ~PayloadValid(R.jobs[stop])
           THEN /\ dry_report' = << [exit |-> <<1>>, raised |-> FALSE,
                                     message |-> ValidationError(R.jobs[stop]),
                                     requests |-> requests] >>
                /\ fs' = IF stop > 1 THEN Mkdir(fs, OutDir) ELSE fs
           ELSE /\ dry_report' = << [exit |-> None, raised |-> TRUE,
                                     message |-> None, requests |-> requests] >>
                /\ fs' = Mkdir(fs, OutDir)
    /\ UNCHANGED <<args, jobs, overwritten, pc, must_cancel, sem_value, sem_waiters,
                   locals, any_failed, main, ready_first, exit_status, die_message,
                   planner>>

Next ==
    \/ ReadJobs
    \/ \E i \in JobIds : StartJob(i)
    \/ \E i \in JobIds : ResumeJob(i)
    \/ \E i \in JobIds : RemoteResolve(i)
    \/ \E i \in JobIds : \E exc \in BatchErrors : RemoteError(i, exc)
    \/ \E i \in JobIds : SleepElapsed(i)
    \/ \E i \in JobIds : Cancelled(i)
    \/ MainCancel
    \/ MainReturn

Spec == Init /\ [][Next]_vars

\* the run of a single job never waits for a slot
NextRetry ==
    \/ ReadJobs
    \/ \E i \in JobIds : StartJob(i)
    \/ \E i \in JobIds : RemoteResolve(i)
    \/ \E i \in JobIds : \E exc \in RemoteErrors : RemoteError(i, exc)
    \/ \E i \in JobIds : SleepElapsed(i)
    \/ MainCancel
    \/ MainReturn

SpecRetry == InitRetry /\ [][NextRetry]_vars

\* a best-effort run without retries
NextParse ==
    \/ ReadJobs
    \/ \E i \in JobIds : StartJob(i)
    \/ \E i \in JobIds : ResumeJob(i)
    \/ \E i \in JobIds : RemoteResolve(i)
    \/ \E i \in JobIds : RemoteError(i, ErrBadRequest)
    \/ MainReturn

SpecParse == InitParse /\ [][NextParse]_vars

\* the planning of the output paths alone
NextPlan == Plan

SpecPlan == InitPlan /\ [][NextPlan]_vars

\* the reading of the input file alone
NextCount == ReadJobs

SpecCount == InitCount /\ [][NextCount]_vars

\* batches of one and two jobs that are run with --dry-run and then for
\* real: every kind of job alone and before a valid, an invalid and a
\* reformatted job, and a file that cannot be read
InitDry ==
    /\ input \in {<<JsonLine(j)>> : j \in JobKinds \cup {JobJpg}}
                 \cup {<<JsonLine(j), JsonLine(k)>> :
                          j \in JobKinds \cup {JobJpg}, k \in {JobPlain, JobBadN, JobJpg}}
                 \cup {<<LineBadJson>>}
    /\ \E e \in {DefaultEnv, CatExists(FALSE), Downscale({})} :
        /\ force = e.force
        /\ downscale_max_dim = e.downscale_max_dim
        /\ fs = e.fs
    /\ concurrency \in 1..MaxConcurrency
    /\ max_attempts \in 1..MaxBatchAttempts
    /\ fail_fast \in BOOLEAN
    /\ downscale_suffix = DEFAULT_DOWNSCALE_SUFFIX
    /\ InitRun

NextDry == DryRun \/ Next

SpecDry == InitDry /\ [][NextDry]_vars

\* the event loop runs a callback whenever one is ready (asyncio.run, line
\* 601: the first step of a task, the wake-up of a waiter, the delivery of a
\* cancellation, the callback of gather), every remote call resolves, with a
\* result or an error, and every backoff sleep elapses: the run does not stop
\* while a step is left to take
Fairness == WF_vars(Next)

\* the batches of Spec, run by a fair event loop against a remote service
\* that answers every call
SpecLive == Init /\ [][Next]_vars /\ Fairness

\* ------------------------------------------------------------------------
\* Properties
\* ------------------------------------------------------------------------
InFlight == {i \in JobIds : pc[i] = "inflight"}
\* the kinds of failure the remote errors of the model stand for
TransientErrors == {ErrRateLimit, ErrTimeout, ErrConnReset} \cup HintedErrors
FatalErrors == {ErrBadRequest}

\* C1: at every instant the number of jobs whose remote call is issued and not
\* yet resolved is at most the concurrency limit.
C1_InFlightBounded == Cardinality(InFlight) <= concurrency

\* the limit is reached while another job waits for a slot
C1_LimitReached ==
    /\ Cardinality(InFlight) = concurrency
    /\ \E i \in JobIds : pc[i] = "waiting"

\* C2: in fail-fast mode, once a job has failed, no job that had issued no
\* remote call before the failure issues one afterwards.
C2_NoNewCallAfterFailure ==
    [][(fail_fast /\ \E k \in JobIds : pc[k] = "failed")
        => \A j \in JobIds : calls[j] = 0 => calls'[j] = 0]_vars

\* C3: in best-effort mode the step in which a job's remote call fails for good
\* records Failed for that job and changes no other task, except that the
\* first waiter is handed the freed slot; no step cancels a task unless _die
\* ends the process in that step; and when the batch returns every job has
\* its own outcome.
C3_BestEffortFailureScoped ==
    [][~fail_fast =>
        /\ \A i \in JobIds :
            (pc[i] \in {"inflight", "sleeping"} /\ pc'[i] = "failed") =>
                /\ result'[i] = "Failed"
                /\ any_failed'
                /\ main' = "gather"
                /\ \A j \in JobIds \ {i} :
                    \/ pc'[j] = pc[j]
                    \/ pc[j] = "waiting" /\ pc'[j] = "woken"
        /\ (\E j \in JobIds : pc[j] # "cancelled" /\ pc'[j] = "cancelled") =>
                main' = "exited"
        /\ main' = "returned" =>
                \A j \in JobIds : result'[j] \in {"Success", "Failed"}]_vars

\* job 1 failed, a later job that needed its slot succeeded, the batch returned
C3_FailedAndOthersDone ==
    /\ ~fail_fast
    /\ concurrency = 1
    /\ main = "returned"
    /\ pc[1] = "failed"
    /\ \E j \in JobIds : j > 1 /\ result[j] = "Success"

\* C4: in best-effort mode, a job whose write step finds an existing
\* destination is recorded as Failed and no other job is cancelled.
C4_OutputExistsScoped ==
    ~fail_fast =>
        \A i \in JobIds : pc[i] = "exists" =>
            /\ result[i] = "Failed"
            /\ \A j \in JobIds : pc[j] # "cancelled"

\* C5: when a job's payload is invalid, no remote call has been issued for any
\* job.
C5_NoCallBeforeValidation ==
    \A i \in JobIds : pc[i] = "invalid" => \A j \in JobIds : calls[j] = 0

\* C6: after fail-fast mode has aborted the run, every job that was cancelled
\* before it completed is recorded as Failed.
C6_CancelledRecordedFailed ==
    (fail_fast /\ main = "raised") =>
        \A i \in JobIds : pc[i] = "cancelled" => result[i] = "Failed"

\* C7: the exit status is zero if and only if every job succeeded; it is
\* non-zero when fail-fast aborted the run.
C7_ExitStatus ==
    /\ exit_status # None =>
        (exit_status = <<0>> <=> \A i \in JobIds : result[i] = "Success")
    /\ main = "raised" => exit_status # None /\ exit_status # <<0>>

\* a best-effort batch ended with status 1, one job Failed and one Success
C7_MixedOutcomeExit ==
    /\ ~fail_fast
    /\ main = "returned"
    /\ exit_status = <<1>>
    /\ \E i \in JobIds : result[i] = "Failed"
    /\ \E i \in JobIds : result[i] = "Success"

\* C8: when k < max_attempts transient failures are followed by a success, the
\* retry loop returns the response of invocation k+1 after exactly k+1
\* invocations and k backoff sleeps; a transient failure is therefore never
\* propagated before max_attempts invocations have failed.
C8_SuccessAfterTransientFailures ==
    \A i \in JobIds :
        /\ response[i] # 0 =>
            /\ response[i] = failures[i] + 1
            /\ calls[i] = failures[i] + 1
            /\ sleeps[i] = failures[i]
            /\ failures[i] < max_attempts
        /\ (pc[i] = "failed" /\ raised[i] \in TransientErrors) =>
            failures[i] >= max_attempts

\* two transient failures, then the third invocation succeeded
C8_ThirdAttemptSucceeds ==
    \E i \in JobIds : response[i] = 3 /\ failures[i] = 2 /\ sleeps[i] = 2

\* C9: when max_attempts invocations in a row fail with transient errors,
\* exactly max_attempts invocations are made, no backoff sleep follows the
\* last one, and the error of the last invocation is the one propagated.
C9_ExhaustedAttempts ==
    \A i \in JobIds :
        (pc[i] = "failed" /\ last_exc[i] \in TransientErrors) =>
            /\ calls[i] = max_attempts
            /\ failures[i] = max_attempts
            /\ sleeps[i] = max_attempts - 1
            /\ raised[i] = last_exc[i]

\* three transient failures with --max-attempts 3
C9_ThreeFailures ==
    \E i \in JobIds :
        /\ max_attempts = 3
        /\ pc[i] = "failed"
        /\ raised[i] \in TransientErrors
        /\ failures[i] = 3

\* C10: a fatal error is propagated at once: once an invocation has raised it,
\* the job neither sleeps nor issues another invocation.
C10_FatalNotRetried ==
    \A i \in JobIds :
        last_exc[i] \in FatalErrors =>
            /\ pc[i] \notin {"sleeping", "inflight"}
            /\ raised[i] = last_exc[i]
            /\ calls[i] = failures[i]
            /\ sleeps[i] = failures[i] - 1

\* a fatal error on the first invocation, with attempts left
C10_FatalWithBudgetLeft ==
    \E i \in JobIds :
        /\ max_attempts > 1
        /\ raised[i] \in FatalErrors
        /\ calls[i] = 1

\* the retry-after hint an error carries, in tenths of a second: its numeric
\* attribute, or the decimal number <seconds> that follows "retry-after" in
\* its text
DecimalTenths(msg, k) ==
    LET from == RunEnd(msg, k + 11, {":", "=", " "})
        to == RunEnd(msg, from, DigitChars)
        whole == 10 * DigitsValue(SubSeq(msg, from, to - 1))
    IN  IF to + 1 <= Len(msg) /\ msg[to] = "." /\ msg[to + 1] \in DigitChars
        THEN whole + DigitsValue(<<msg[to + 1]>>)
        ELSE whole

RetryAfterHint(exc) ==
    IF GetAttr(exc, "retry_after") # None THEN GetAttr(exc, "retry_after")
    ELSE IF \E k \in 1..Len(exc.msg) : RetryAfterMatchesAt(exc.msg, k)
    THEN <<DecimalTenths(exc.msg,
              CHOOSE k \in 1..Len(exc.msg) : RetryAfterMatchesAt(exc.msg, k))>>
    ELSE None

\* C11: the delay that follows a transient failure on attempt a is the
\* retry-after hint of the error when it carries one, and min(60, 2^a) seconds
\* otherwise.
C11_BackoffDelay ==
    \A i \in JobIds :
        pc[i] = "sleeping" =>
            sleep_s[i] = IF RetryAfterHint(last_exc[i]) # None
                         THEN RetryAfterHint(last_exc[i])
                         ELSE <<Min(600, 10 * 2^attempt[i])>>

\* C12: when a best-effort run of valid jobs has ended, every job has an
\* outcome record, Success or Failed.
C12_OneOutcomePerJob ==
    (/\ ~fail_fast
     /\ main \in {"returned", "exited"}
     /\ \A i \in JobIds : PayloadValid(jobs[i]))
        => \A i \in JobIds : result[i] \in {"Success", "Failed"}

\* the output paths planned for job i, with their positions
Planned(i) == {<<i, a, JobOutputs(i)[a]>> : a \in 1..Len(JobOutputs(i))}

\* C13: the output paths planned for the jobs of a batch are pairwise
\* distinct, across jobs and across the images of one job.
C13_PlannedPathsDistinct ==
    \A i, j \in JobIds :
        (pc[i] # "new" /\ pc[j] # "new" /\ PayloadValid(jobs[i]) /\ PayloadValid(jobs[j]))
            => \A x \in Planned(i), y \in Planned(j) : x # y => x[3] # y[3]

\* the value the claimed precedence gives field k of a job: the override of
\* "fields", else the flat key, else the command-line default
ClaimedField(job, k) ==
    IF Get(JobFieldsDict(job), k, None) # None THEN JobFieldsDict(job)[k]
    ELSE IF JobFlatDict(job)[k] # None THEN JobFlatDict(job)[k]
    ELSE base_fields[k]

\* C14: the prompt of the payload built for a job is augmented with the
\* fields chosen by the precedence override of "fields" > flat key > default.
C14_FieldPrecedence ==
    \A i \in JobIds :
        payload[i] # None =>
            payload[i][1].prompt =
                _augment_prompt_fields(augment, Strip(Str(jobs[i].prompt)),
                                       [k \in FieldKeys |-> ClaimedField(jobs[i], k)])

\* a payload free of null values whose parameters are in their ranges
ValidSentPayload(p) ==
    /\ \A k \in DOMAIN p : p[k] # None
    /\ "n" \in DOMAIN p => (Len(p.n) = 1 /\ p.n[1] \in 1..10)
    /\ "size" \in DOMAIN p =>
           p.size[1] \in {"1024x1024", "1536x1024", "1024x1536", "auto"}
    /\ "quality" \in DOMAIN p => p.quality[1] \in {"low", "medium", "high", "auto"}
    /\ "background" \in DOMAIN p =>
           p.background[1] \in {"transparent", "opaque", "auto"}
    /\ "output_compression" \in DOMAIN p =>
           (Len(p.output_compression) = 1 /\ p.output_compression[1] \in 0..100)
    /\ ("background" \in DOMAIN p /\ p.background[1] = "transparent") =>
           ("output_format" \notin DOMAIN p \/ p.output_format[1] \in {"png", "webp"})

\* C15: every payload handed to a remote call is valid.
C15_SentPayloadValid ==
    \A i \in JobIds : calls[i] > 0 => ValidSentPayload(payload[i][1])

\* C16: from the moment fail-fast cancellation is signalled to a task, the
\* task issues no remote invocation, records no success and no file is
\* written; it can only end as cancelled.
C16_NoProgressAfterCancel ==
    [][\A i \in JobIds :
        (fail_fast /\ i \in must_cancel) =>
            /\ calls'[i] = calls[i]
            /\ attempt'[i] = attempt[i]
            /\ result'[i] = result[i]
            /\ fs' = fs
            /\ pc'[i] \in {pc[i], "cancelled"}]_vars

\* a task was cancelled during its backoff sleep with attempts left
C16_CancelledInBackoff ==
    \E i \in JobIds :
        /\ fail_fast
        /\ main = "raised"
        /\ pc[i] = "cancelled"
        /\ sleeps[i] = calls[i]
        /\ 0 < calls[i] /\ calls[i] < max_attempts

\* C17: without --force no path is written while a file exists there, under
\* every interleaving and also when two jobs plan the same path.
C17_NoOverwrite == ~force => overwritten = {}

\* two jobs planned the same path: the first wrote it, the write step of the
\* second found it and wrote nothing
C17_SecondWriterStopped ==
    \E i, j \in JobIds :
        /\ i # j
        /\ ~force
        /\ JobOutputs(i) = JobOutputs(j)
        /\ pc[i] = "success"
        /\ pc[j] = "exists"
        /\ fs = {Dir(OutDir), JobOutputs(i)[1]}

\* C18: when a best-effort run has ended, two jobs that have the same inputs
\* (the same line with an output hint) and whose remote calls both returned
\* a response have the same status.
C18_SameInputsSameStatus ==
    (~fail_fast /\ main \in {"returned", "exited"}) =>
        \A i, j \in JobIds :
            (/\ jobs[i] = jobs[j]
             /\ jobs[i].out # None
             /\ response[i] # 0
             /\ response[j] # 0) => result[i] = result[j]

\* the first character of a line that is not a space, None on a blank line
FirstMark(text) ==
    LET ks == {k \in 1..Len(text) : text[k] \notin SpaceChars}
    IN  IF ks = {} THEN None
        ELSE <<text[CHOOSE k \in ks : \A m \in ks : k <= m]>>

\* a line that is neither blank nor a comment
IsJobLine(line) == FirstMark(line.raw) \notin {None, <<"#">>}

\* the job a job line stands for: the record of a structured line, the
\* trimmed text of a bare prompt
JobOfLine(line) ==
    IF "item" \in DOMAIN line THEN line.item
    ELSE [prompt |-> <<Strip(line.raw)>>, over |-> NoOverrides, out |-> None]

\* C19: once the input is read, the jobs are the non-blank, non-comment
\* lines in input order, numbered 1..N; blank and comment lines give no job
\* and take no index.
C19_IndicesFollowJobLines ==
    main \in {"gather", "returned"} =>
        LET kept == SelectSeq(input, IsJobLine)
        IN  /\ DOMAIN jobs = 1..Len(kept)
            /\ DOMAIN pc = 1..Len(kept)
            /\ \A k \in 1..Len(kept) : jobs[k] = JobOfLine(kept[k])

\* a comment line and a blank line stand between two prompts; the second
\* prompt ran as job 2 and wrote the file numbered 002
C19_SecondPromptIsJobTwo ==
    /\ Len(input) = 3
    /\ input[1] = LinePlain
    /\ input[2] \in {LineComment, LineBlank}
    /\ input[3] = LinePadded
    /\ main = "returned"
    /\ DOMAIN pc = 1..2
    /\ pc[2] = "success"
    /\ JobOutputs(2)[1] \in fs

\* a structured job without a usable prompt: the key is missing, its value
\* is null, or its text is empty after trimming
LacksPrompt(item) ==
    \/ "prompt" \notin DOMAIN item
    \/ item.prompt = None
    \/ (item.prompt # None /\ Strip(item.prompt[1]) = <<>>)

\* C20: when some structured line of the input lacks a prompt, reading the
\* input ends the run with status 1, no job is scheduled and no remote call
\* is made.
C20_MissingPromptStopsBatch ==
    (/\ main # "start"
     /\ \E k \in DOMAIN input :
            "item" \in DOMAIN input[k] /\ LacksPrompt(input[k].item))
    => /\ main = "exited"
       /\ exit_status = <<1>>
       /\ jobs = <<>>
       /\ \A i \in DOMAIN calls : calls[i] = 0

\* number of lines of the input that are neither blank nor comments
JobLineCount == Len(SelectSeq(input, IsJobLine))

\* C21: once the input is read, an input of zero jobs or of more than 500
\* jobs has ended the run with status 1 before any task or remote call, and
\* an input of 1 to 500 jobs is accepted with all its jobs.
C21_JobCountLimits ==
    main # "start" =>
        IF JobLineCount = 0 \/ JobLineCount > 500
        THEN main = "exited" /\ exit_status = <<1>> /\ jobs = <<>> /\ calls = <<>>
        ELSE main = "gather" /\ Len(jobs) = JobLineCount /\ DOMAIN pc = 1..JobLineCount

\* an input of 501 jobs among blank and comment lines was refused
C21_OneTooMany ==
    /\ main = "exited"
    /\ JobLineCount = 501
    /\ Len(input) > 501

\* the lists of paths the studied calls of the planner returned
ReturnedPlans == {k \in 1..Len(plans) : ~plans[k].raised}

\* path is a file directly inside directory d: its name is one component
DirectChild(path, d) ==
    /\ path.dir = d
    /\ path.name \notin {<<>>, <<".">>, <<".",".">>}
    /\ \A k \in 1..Len(path.name) : path.name[k] # "/"

\* C22: every path the planner returns is a direct child of the output
\* directory, whatever directories or traversal the hint contains.
C22_PathsInsideOutDir ==
    \A k \in ReturnedPlans :
        \A a \in 1..Len(plans[k].paths) : DirectChild(plans[k].paths[a], OutDir)

\* paths were planned from a hint that climbs out of the output directory
C22_TraversalHintPlanned ==
    /\ plan_args # None
    /\ plan_args.explicit_out = << <<".",".","/","s","h","o","t">> >>
    /\ plan_args.n > 1
    /\ ReturnedPlans # {}

\* position of the "." that starts the extension of a file name
ExtensionAt(name) ==
    CHOOSE k \in 1..Len(name) : name[k] = "." /\ \A j \in (k + 1)..Len(name) : name[j] # "."

\* the file name with -i inserted before its extension
WithIndex(name, i) ==
    SubSeq(name, 1, ExtensionAt(name) - 1) \o <<"-">> \o IntStr(i)
        \o SubSeq(name, ExtensionAt(name), Len(name))

\* the file name carries a number before its extension
Numbered(name) ==
    LET stem == SubSeq(name, 1, ExtensionAt(name) - 1)
    IN  \E i \in 1..9 :
            /\ Len(stem) >= 2
            /\ SubSeq(stem, Len(stem) - 1, Len(stem)) = <<"-">> \o IntStr(i)

\* the base path of the studied call: the path planned for one image
BasePath ==
    _job_output_paths(OutDir, plan_args.output_format, plan_args.idx, plan_args.prompt,
                      1, plan_args.explicit_out)[1]

\* C23: for n > 1 the planner returns n paths, the i-th being the base path
\* with -i before the extension; for n = 1 it returns a single path, without
\* a number.
C23_SiblingPaths ==
    \A k \in ReturnedPlans :
        /\ Len(plans[k].paths) = plan_args.n
        /\ plan_args.n = 1 => ~Numbered(plans[k].paths[1].name)
        /\ plan_args.n > 1 =>
               \A i \in 1..plan_args.n :
                   plans[k].paths[i] = [dir |-> BasePath.dir, name |-> WithIndex(BasePath.name, i)]

\* three images were planned from a hint that has its own extension
C23_ThreeSiblingsPlanned ==
    /\ plan_args # None
    /\ plan_args.explicit_out = << <<"s","h","o","t",".","j","p","g">> >>
    /\ plan_args.n = 3
    /\ ReturnedPlans # {}

\* C24: planning the output paths leaves the file system as it is.
C24_PlanningChangesNothing == [][plans' # plans => fs' = fs]_vars

Reports(message, v) ==
    \E k \in 1..Len(message) : "val" \in DOMAIN message[k] /\ message[k].val = v

\* a payload key as the messages may spell it: the key or the option name
Spellings(f) == IF f = "output_format" THEN {f, "output-format"} ELSE {f}

\* one of the words of the message is the name of field f
Names(message, f) ==
    \E k \in 1..Len(message) :
        /\ "lit" \in DOMAIN message[k]
        /\ \E w \in 1..Len(message[k].lit) : message[k].lit[w] \in Spellings(f)

\* the fields of the payload of a job whose values fail validation
OffendingFields(job) ==
    LET pl == JobPayload(job)
        n == ToInt(Get(pl, "n", <<1>>))
        oc == Get(pl, "output_compression", None)
        fmt == Get(pl, "output_format", None)
        background == Get(pl, "background", None)
    IN  {f \in PayloadKeys :
            \/ f = "n" /\ n \notin 1..10
            \/ f = "size" /\ Get(pl, "size", DEFAULT_SIZE) \notin ALLOWED_SIZES
            \/ f = "quality" /\ Get(pl, "quality", DEFAULT_QUALITY) \notin ALLOWED_QUALITIES
            \/ f = "background" /\ background \notin ALLOWED_BACKGROUNDS
            \/ f = "output_compression" /\ oc # None /\ ToInt(oc) \notin 0..100
            \/ f = "output_format" /\ ~NormalizeOutputFormatOk(fmt)
            \/ /\ f \in {"background", "output_format"}
               /\ NormalizeOutputFormatOk(fmt)
               /\ background = <<"transparent">>
               /\ _normalize_output_format(fmt) \notin {"png", "webp"}}

\* the message of a validation failure names a field that failed
FieldNamed(i) == \E f \in OffendingFields(jobs[i]) : Names(die_message[1], f)

\* C25: when the payload of job i fails validation, the message printed
\* carries the sequence index i and names the field that failed.
C25_ValidationNamesJobAndField ==
    \A i \in JobIds :
        pc[i] = "invalid" =>
            /\ die_message # None
            /\ FieldNamed(i)
            /\ Reports(die_message[1], i)

\* the jobs that hold a slot: their retry sequence is under way, in a remote
\* call or in a backoff sleep, or release has just handed them the slot
SlotHolders == {i \in JobIds : pc[i] \in {"woken", "inflight", "sleeping"}}

\* the run is over: the program has left _run_generate_batch and no task is
\* left to resume
RunEnded ==
    /\ main \in {"returned", "exited", "raised"}
    /\ must_cancel = {}
    /\ \A i \in JobIds : pc[i] \in Finished

\* C28: in every state the free slots and the jobs that hold a slot add up
\* to the concurrency limit, and every slot is free when the run has ended.
C28_SlotsConserved ==
    /\ sem_value >= 0
    /\ sem_value + Cardinality(SlotHolders) = concurrency
    /\ RunEnded => sem_value = concurrency

\* a job keeps the only slot during its backoff sleep while another waits
C28_SlotKeptInBackoff ==
    \E i, j \in JobIds :
        /\ pc[i] = "sleeping"
        /\ pc[j] = "waiting"
        /\ sem_value = 0
        /\ concurrency = 1


\* the usable values of the typed retry-after attributes of an error
TypedHints(exc) ==
    {v \in {GetAttr(exc, "retry_after"), GetAttr(exc, "retry_after_seconds")} :
        v # None /\ v[1] >= 0}

\* the delay read from the retry-after pattern in the text of an error, None
\* when the text has no such pattern
TextHint(exc) ==
    IF \E k \in 1..Len(exc.msg) : RetryAfterMatchesAt(exc.msg, k)
    THEN Float(RetryAfterGroup(exc.msg))
    ELSE None

\* C29: the delay before the next attempt comes from a non-negative typed
\* retry-after attribute of the error when it has one, else from the
\* retry-after pattern of its text when that matches, else from the
\* exponential schedule min(60, 2^attempt).
C29_RetryAfterPrecedence ==
    \A i \in JobIds :
        pc[i] = "sleeping" =>
            IF TypedHints(last_exc[i]) # {} THEN sleep_s[i] \in TypedHints(last_exc[i])
            ELSE IF TextHint(last_exc[i]) # None THEN sleep_s[i] = TextHint(last_exc[i])
            ELSE sleep_s[i] = <<Min(600, 10 * 2^attempt[i])>>

\* a task sleeps the attribute's 2.0 s after an error whose text says 3
C29_AttributeBeatsText ==
    \E i \in JobIds :
        /\ pc[i] = "sleeping"
        /\ last_exc[i] = ErrRetryAfterBoth
        /\ TextHint(last_exc[i]) = <<30>>
        /\ sleep_s[i] = <<20>>


\* C30: when downscaling is requested, the downscaled path derived for each
\* output path of a job whose images were written differs from that output
\* path, whatever --downscale-suffix is.
C30_DerivedPathDiffers ==
    \A i \in JobIds :
        (downscale_max_dim # None /\ pc[i] \in {"success", "exists"}) =>
            \A a \in 1..Len(JobOutputs(i)) :
                _derive_downscale_path(JobOutputs(i)[a], downscale_suffix)
                    # JobOutputs(i)[a]


\* a best-effort run of jobs that all pass validation
BestEffortValid == ~fail_fast /\ \A i \in JobIds : PayloadValid(jobs[i])

\* C27: when every remote call resolves and every backoff sleep elapses, the
\* run ends, and in best-effort mode it ends with an outcome, Success or
\* Failed, for every job.
C27_EveryJobReachesOutcome ==
    <>(/\ RunEnded
       /\ main # "start"
       /\ BestEffortValid => \A i \in JobIds : result[i] \in {"Success", "Failed"})

\* the run ends, whatever the mode and the jobs
RunTerminates == <>(RunEnded /\ main # "start")

\* no job waits forever for a slot
NoJobWaitsForever ==
    \A i \in 1..MaxJobs :
        (i \in JobIds /\ pc[i] = "waiting") ~> (i \in JobIds /\ pc[i] # "waiting")


\* the requests a dry run of the batch printed
Requests == dry_report[1].requests

\* every job passes validation and planning
AllJobsPlanned ==
    \A i \in JobIds : PayloadValid(jobs[i]) /\ ~EmptyName(jobs[i].out)

\* the payload and the paths a dry run reported for a job are the payload the
\* real run sent and the paths it planned for it, and a dry run of jobs that
\* all pass reports every one of them and returns 0
DryRunAgrees ==
    dry_report # None =>
        /\ \A i \in JobIds :
            (calls[i] > 0 /\ i <= Len(Requests)) =>
                /\ Requests[i].job = i
                /\ <<Requests[i].payload>> = payload[i]
                /\ Requests[i].outputs = JobOutputs(i)
        /\ (jobs # <<>> /\ AllJobsPlanned) =>
                /\ Len(Requests) = Len(jobs)
                /\ dry_report[1].exit = <<0>>

\* the step of a dry run issues no remote call and adds no file but the
\* output directory
DryRunIsDry ==
    dry_report' # dry_report =>
        /\ calls' = calls
        /\ payload' = payload
        /\ fs' \subseteq fs \cup {Dir(OutDir)}
        /\ overwritten' = overwritten

\* C31: the payload and the output paths a dry run of a batch reports for a
\* job equal the payload the real run of the batch sends and the paths it
\* plans for that job, and the dry run issues no remote call and writes no
\* image file.
C31_DryRunMatchesRealRun == []DryRunAgrees /\ [][DryRunIsDry]_vars

\* the real run has sent, for the second job of a batch, the payload with
\* the normalised format that the dry run reported for it
C31_ReformattedJobSentAsReported ==
    /\ dry_report # None
    /\ Len(jobs) = 2
    /\ jobs[2] = JobJpg
    /\ calls[2] > 0
    /\ Len(Requests) = 2
    /\ Requests[2].payload["output_format"] = <<"jpeg">>
    /\ Len(Requests[2].outputs) = 2

====
